---- MODULE Spec2Model ----
(***************************************************************************)
(* InfluxDB3Sink (quixstreams/sinks/core/influxdb3.py): construction,      *)
(* setup, add and write of one sink instance serving one topic partition.  *)
(* write is followed record by record and chunk by chunk; the destination  *)
(* client answers every write call with success or with one of its errors. *)
(***************************************************************************)
EXTENDS Integers, Sequences, FiniteSets, TLC

\* ------------------------------------------------------------------ bounds

\* Largest number of records the pipeline adds before a checkpoint.
MaxBatch == 3
\* Largest number of records of a checkpoint when every configuration is tried.
MaxRecords == 1
\* Largest number of write(batch) calls the pipeline makes for one batch.
MaxAttempts == 2

\* ----------------------------------------------------------------- domains

\* Keys a record value may hold, in the order static key tuples list them.
KeyOrder == <<"a", "b">>
Keys == {KeyOrder[n] : n \in 1..Len(KeyOrder)}
Vals == {1, 2}
RecordKeys == {"k1"}
Timestamps == {0}
ChunkSizes == {1, 2}
\* Retry-After header texts as digit sequences; <<>> is an absent header.
NoRetryAfter == <<>>
RetryAfterHeaders == {NoRetryAfter, <<0>>, <<3, 0>>}
TooManyRequests == 429
Statuses == {TooManyRequests, 500}
NoneKey == "<None>"

\* dict values: the functions from a set of keys to values.
ValueMaps == UNION {[S -> Vals] : S \in SUBSET Keys}
EmptyMap == [k \in {} |-> 0]

\* ----------------------------------------------------------------- setters

\* A setter is a static value or a named single-argument function of the
\* record value.  kind "static" is the only one that is not callable.
StaticKeys(S) == [kind |-> "static", keys |-> S, name |-> ""]
KeysFn(kind) == [kind |-> kind, keys |-> {}, name |-> ""]
StaticName(m) == [kind |-> "static", keys |-> {}, name |-> m]
NameFn(kind) == [kind |-> kind, keys |-> {}, name |-> ""]

callable(setter) == setter.kind # "static"

\* TimePrecision
TimePrecision == {"ms", "ns", "us", "s"}

\* _TIME_PRECISIONS with every precision written as milliseconds.
AlwaysMilliseconds == [p \in {"ms", "ns", "us", "s"} |-> "WritePrecision.MS"]

_TIME_PRECISIONS == [p \in TimePrecision |->
    CASE p = "ms" -> "WritePrecision.MS"
      [] p = "ns" -> "WritePrecision.NS"
      [] p = "us" -> "WritePrecision.US"
      [] p = "s"  -> "WritePrecision.S"]

\* Lambda with the function returning nothing (lambda value: None).
LambdaNone(setter) == [kind |-> "lambda", keys |-> {}, name |-> ""]

\* lambda value: setter
Lambda(setter) == [setter EXCEPT !.kind = "lambda"]

_measurement_callable(setter) == IF callable(setter) THEN setter ELSE Lambda(setter)
_fields_callable(setter) == IF callable(setter) THEN setter ELSE Lambda(setter)
_tags_callable(setter) == IF callable(setter) THEN setter ELSE Lambda(setter)

\* Calling a resolved key function on a record value.
\*   lambda        the wrapped static collection
\*   keys_of       lambda value: list(value)
\*   no_keys       lambda value: ()
\*   a_if_present  lambda value: ["a"] if "a" in value else []
CallKeys(f, value) ==
    CASE f.kind = "lambda"       -> f.keys
      [] f.kind = "keys_of"      -> DOMAIN value
      [] f.kind = "no_keys"      -> {}
      [] f.kind = "a_if_present" -> IF "a" \in DOMAIN value THEN {"a"} ELSE {}

\* Calling a resolved measurement function on a record value.
\*   lambda   the wrapped static name
\*   by_a     lambda value: "with_a" if "a" in value else "without_a"
CallName(f, value) ==
    CASE f.kind = "lambda" -> f.name
      [] f.kind = "by_a"   -> IF "a" \in DOMAIN value THEN "with_a" ELSE "without_a"

\* A collection of keys in iteration order.
InOrder(S) == SelectSeq(KeyOrder, LAMBDA k : k \in S)

\* Without with the key read and left in place (value[key] for value.pop(key)).
WithoutPop(value, key) == value

\* dict without one key (dict.pop on a present key).
Without(value, key) == [k \in (DOMAIN value) \ {key} |-> value[k]]

\* dict with one more entry (d[key] = v).
With(d, key, v) == [k \in (DOMAIN d) \cup {key} |-> IF k = key THEN v ELSE d[k]]

\* ------------------------------------------------------------- exceptions

\* One shape for every exception the sink raises or lets through.
\*   InfluxDBError          has_response, status, retry_after (header text)
\*   SinkBackpressureError  seconds, topic, partition
\*   KeyError               key
NoExc == [type |-> "", has_response |-> FALSE, status |-> 0,
          retry_after |-> NoRetryAfter, seconds |-> 0,
          topic |-> "", partition |-> 0, key |-> ""]

InfluxDBError(has_response, status, retry_after) ==
    [NoExc EXCEPT !.type = "InfluxDBError", !.has_response = has_response,
                  !.status = status, !.retry_after = retry_after]
SinkBackpressureError(retry_after, topic, partition) ==
    [NoExc EXCEPT !.type = "SinkBackpressureError", !.seconds = retry_after,
                  !.topic = topic, !.partition = partition]
KeyError(key) == [NoExc EXCEPT !.type = "KeyError", !.key = key]
TimeoutError == [NoExc EXCEPT !.type = "TimeoutError"]

\* What the destination client's write may raise.
WriteErrors ==
    {InfluxDBError(TRUE, s, h) : s \in Statuses, h \in RetryAfterHeaders}
    \cup {InfluxDBError(FALSE, 0, NoRetryAfter), TimeoutError}

\* int() of a decimal text.
RECURSIVE int(_)
int(text) ==
    IF text = <<>> THEN 0
    ELSE int(SubSeq(text, 1, Len(text) - 1)) * 10 + text[Len(text)]

\* ------------------------------------------------------- record transformer

NoPoint == [measurement |-> "", tags |-> EmptyMap, fields |-> EmptyMap, time |-> 0]

\* PopTags with absent tag keys passed over (value.pop(tag_key, None)).
RECURSIVE PopPresentTags(_, _, _)
PopPresentTags(tag_keys, value, tags) ==
    IF tag_keys = <<>> THEN [ok |-> TRUE, value |-> value, tags |-> tags, key |-> ""]
    ELSE LET tag_key == Head(tag_keys) IN
         IF tag_key \notin DOMAIN value
         THEN PopPresentTags(Tail(tag_keys), value, tags)
         ELSE PopPresentTags(Tail(tag_keys), Without(value, tag_key),
                             With(tags, tag_key, value[tag_key]))

\* for tag_key in _tags_keys: tags[tag_key] = value.pop(tag_key)
RECURSIVE PopTags(_, _, _)
PopTags(tag_keys, value, tags) ==
    IF tag_keys = <<>> THEN [ok |-> TRUE, value |-> value, tags |-> tags, key |-> ""]
    ELSE LET tag_key == Head(tag_keys) IN
         IF tag_key \notin DOMAIN value
         THEN [ok |-> FALSE, value |-> value, tags |-> tags, key |-> tag_key]
         ELSE PopTags(Tail(tag_keys), Without(value, tag_key),
                      With(tags, tag_key, value[tag_key]))

\* MetadataTags with the record key and the topic under each other's name.
MetadataTagsSwapped(tags, key, topic, partition) ==
    With(With(With(tags, "__key", topic), "__topic", key), "__partition", partition)

\* tags["__key"], tags["__topic"], tags["__partition"]
MetadataTags(tags, key, topic, partition) ==
    With(With(With(tags, "__key", key), "__topic", topic), "__partition", partition)

\* FieldsFilter with absent keys skipped under either policy.
FieldsFilterPresent(_fields_keys, _tags_keys, value, allow_missing_fields) ==
    {field_key \in _fields_keys :
        field_key \in DOMAIN value /\ field_key \notin _tags_keys}

\* The keys the fields comprehension keeps: its if-clause.
FieldsFilter(_fields_keys, _tags_keys, value, allow_missing_fields) ==
    {field_key \in _fields_keys :
        (field_key \in DOMAIN value \/ ~allow_missing_fields)
        /\ field_key \notin _tags_keys}

\* BuildFields without the "if _fields_keys else value" default.
BuildFieldsNoDefault(_fields_keys, _tags_keys, value, allow_missing_fields) ==
    LET kept == FieldsFilter(_fields_keys, _tags_keys, value, allow_missing_fields)
        absent == InOrder(kept \ DOMAIN value)
    IN  IF absent # <<>>
        THEN [ok |-> FALSE, fields |-> EmptyMap, key |-> Head(absent)]
        ELSE [ok |-> TRUE, fields |-> [k \in kept |-> value[k]], key |-> ""]

\* fields = {...} if _fields_keys else value
BuildFields(_fields_keys, _tags_keys, value, allow_missing_fields) ==
    IF _fields_keys # {}
    THEN LET kept == FieldsFilter(_fields_keys, _tags_keys, value, allow_missing_fields)
             absent == InOrder(kept \ DOMAIN value)
         IN  IF absent # <<>>
             THEN [ok |-> FALSE, fields |-> EmptyMap, key |-> Head(absent)]
             ELSE [ok |-> TRUE, fields |-> [k \in kept |-> value[k]], key |-> ""]
    ELSE [ok |-> TRUE, fields |-> value, key |-> ""]

\* ResolveTime falling back on the record's timestamp
\* (value.get(time_key, item.timestamp)).
ResolveTimeOrTimestamp(time_key, value, timestamp) ==
    IF time_key # NoneKey /\ time_key \in DOMAIN value
    THEN [ok |-> TRUE, ts |-> value[time_key], key |-> ""]
    ELSE [ok |-> TRUE, ts |-> timestamp, key |-> ""]

\* ts = value[time_key] if time_key is not None else item.timestamp
ResolveTime(time_key, value, timestamp) ==
    IF time_key # NoneKey
    THEN IF time_key \in DOMAIN value
         THEN [ok |-> TRUE, ts |-> value[time_key], key |-> ""]
         ELSE [ok |-> FALSE, ts |-> 0, key |-> time_key]
    ELSE [ok |-> TRUE, ts |-> timestamp, key |-> ""]

\* The body of the loop over a chunk's items, for one item: the point it
\* builds, or the key error it raises, and the item's value as the loop
\* leaves it (value is item.value itself, so pop acts on the stored record).
TransformItem(sink, topic, partition, item) ==
    LET value == item.value
        _measurement == CallName(sink._measurement, value)
        _tags_keys == CallKeys(sink._tags_keys, value)
        _fields_keys == CallKeys(sink._fields_keys, value)
        popped == PopTags(InOrder(_tags_keys), value, EmptyMap)
        tags == IF sink._include_metadata_tags
                THEN MetadataTags(popped.tags, item.key, topic, partition)
                ELSE popped.tags
        built == BuildFields(_fields_keys, _tags_keys, popped.value,
                             sink._allow_missing_fields)
        time == ResolveTime(sink._time_key, popped.value, item.timestamp)
    IN  IF ~popped.ok
        THEN [ok |-> FALSE, value |-> popped.value, point |-> NoPoint,
              exc |-> KeyError(popped.key)]
        ELSE IF ~built.ok
        THEN [ok |-> FALSE, value |-> popped.value, point |-> NoPoint,
              exc |-> KeyError(built.key)]
        ELSE IF ~time.ok
        THEN [ok |-> FALSE, value |-> popped.value, point |-> NoPoint,
              exc |-> KeyError(time.key)]
        ELSE [ok |-> TRUE, value |-> popped.value,
              point |-> [measurement |-> _measurement, tags |-> tags,
                         fields |-> built.fields, time |-> time.ts],
              exc |-> NoExc]

\* --------------------------------------------------------------- chunking

\* SinkBatch.iter_chunks(n): consecutive runs of at most n items, as the
\* positions of the items in the batch.
iter_chunks(len, n) ==
    [c \in 1..((len + n - 1) \div n) |->
        [j \in 1..(IF c * n <= len THEN n ELSE len - (c - 1) * n) |-> (c - 1) * n + j]]

\* Translate with the error re-raised whatever it carries.
TranslateNever(exc, topic, partition) == exc

\* Translate with the retry-after test left out.
TranslateAny429(exc, topic, partition) ==
    IF exc.type = "InfluxDBError" /\ exc.has_response /\ exc.status = TooManyRequests
    THEN SinkBackpressureError(int(exc.retry_after), topic, partition)
    ELSE exc

\* except influxdb_client_3.InfluxDBError as exc: ... raise
Translate(exc, topic, partition) ==
    IF exc.type = "InfluxDBError"
    THEN IF exc.has_response /\ exc.status = TooManyRequests
            /\ exc.retry_after # NoRetryAfter
         THEN SinkBackpressureError(int(exc.retry_after), topic, partition)
         ELSE exc
    ELSE exc

\* ------------------------------------------------------------------ state

VARIABLES
    args,           \* the arguments __init__ is called with
    pc,             \* where the sink's single caller is
    self,           \* the sink's attributes
    pending,        \* add() calls the pipeline still makes before the checkpoint
    batch,          \* the SinkBatch: topic, partition, items
    added,          \* the values of the batch's items as add() received them
    attempts,       \* write(batch) calls made so far
    chunks,         \* write: batch.iter_chunks(n=self._batch_size)
    k,              \* write: the chunk being processed
    i,              \* write: the item of the chunk being processed
    records,        \* write: the points built for the chunk
    min_timestamp,  \* write: running minimum of the chunk
    max_timestamp,  \* write: running maximum of the chunk
    calls,          \* every self._client.write call: its arguments, whether it returned
    client_raised,  \* what the last self._client.write call raised, if anything
    logs,           \* every "Sent data to InfluxDB" diagnostic
    queries,        \* every self._client.query call: its query string
    e,              \* setup: the exception its except clause has caught
    raised          \* the exception the last operation raised, if any

vars == <<args, pc, self, pending, batch, added, attempts, chunks, k, i, records,
          min_timestamp, max_timestamp, calls, client_raised, logs, queries, e, raised>>

frame == <<chunks, k, i, records, min_timestamp, max_timestamp>>

\* sys.maxsize, held to the largest integer TLC represents; every timestamp
\* of the model lies below it.
maxsize == 2147483647

ValueError(what) == [NoExc EXCEPT !.type = "ValueError", !.key = what]
TypeError == [NoExc EXCEPT !.type = "TypeError"]
ProbeError(message) == [NoExc EXCEPT !.type = "Exception", !.key = message]

NoSink == [_client |-> "None",
           _measurement |-> StaticName(""),
           _fields_keys |-> StaticKeys({}),
           _tags_keys |-> StaticKeys({}),
           _include_metadata_tags |-> FALSE,
           _time_key |-> NoneKey,
           _write_precision |-> "",
           _batch_size |-> 0,
           _allow_missing_fields |-> FALSE]

\* The configurations a behaviour may start from.
FieldsSetters == {StaticKeys(S) : S \in SUBSET Keys} \cup {KeysFn("keys_of"), KeysFn("no_keys")}
TagsSetters == {StaticKeys(S) : S \in SUBSET Keys} \cup {KeysFn("a_if_present")}
MeasurementSetters == {StaticName("m"), NameFn("by_a")}

Configs(fields, tags, measurements, time_keys, precisions, flags, sizes) ==
    [measurement : measurements, fields_keys : fields, tags_keys : tags,
     time_key : time_keys, time_precision : precisions,
     allow_missing_fields : BOOLEAN, include_metadata_tags : flags,
     batch_size : sizes]

\* The add() calls of one checkpoint interval, all for one topic partition.
AddCalls(values, keys, timestamps, topic, partition) ==
    [value : values, mapping : {TRUE}, key : keys, timestamp : timestamps,
     headers : {<<>>}, topic : {topic}, partition : {partition}, offset : {0}]

\* add() calls whose value is no mapping (a string, a list, a number); the
\* value field only fills the record's shape.
OtherAddCalls(keys, timestamps, topic, partition) ==
    [value : {EmptyMap}, mapping : {FALSE}, key : keys, timestamp : timestamps,
     headers : {<<>>}, topic : {topic}, partition : {partition}, offset : {0}]

Feeds(calls_, n) == UNION {[1..m -> calls_] : m \in 1..n}

InitWith(configs, feeds) ==
    /\ args \in configs
    /\ pending \in feeds
    /\ pc = "new"
    /\ self = NoSink
    /\ batch = [topic |-> "", partition |-> 0, items |-> <<>>]
    /\ added = <<>>
    /\ attempts = 0
    /\ chunks = <<>>
    /\ k = 0
    /\ i = 0
    /\ records = <<>>
    /\ min_timestamp = 0
    /\ max_timestamp = 0
    /\ calls = <<>>
    /\ client_raised = NoExc
    /\ logs = <<>>
    /\ queries = <<>>
    /\ e = NoExc
    /\ raised = NoExc

\* ------------------------------------------------------------- operations

\* fields_tags_keys_overlap with the check left out.
no_overlap_check(fields_keys, tags_keys) == {}

\* set(fields_keys) & set(tags_keys), computed only for two static setters
fields_tags_keys_overlap(fields_keys, tags_keys) ==
    IF ~callable(fields_keys) /\ ~callable(tags_keys)
    THEN fields_keys.keys \cap tags_keys.keys
    ELSE {}

\* __init__
Construct ==
    /\ pc = "new"
    /\ IF args.time_precision \notin TimePrecision
       THEN /\ pc' = "init_failed"
            /\ raised' = ValueError("time_precision")
            /\ UNCHANGED self
       ELSE IF fields_tags_keys_overlap(args.fields_keys, args.tags_keys) # {}
       THEN /\ pc' = "init_failed"
            /\ raised' = ValueError("fields_keys and tags_keys")
            /\ UNCHANGED self
       ELSE /\ pc' = "constructed"
            /\ self' = [_client |-> "None",
                        _measurement |-> _measurement_callable(args.measurement),
                        _fields_keys |-> _fields_callable(args.fields_keys),
                        _tags_keys |-> _tags_callable(args.tags_keys),
                        _include_metadata_tags |-> args.include_metadata_tags,
                        _time_key |-> args.time_key,
                        _write_precision |-> _TIME_PRECISIONS[args.time_precision],
                        _batch_size |-> args.batch_size,
                        _allow_missing_fields |-> args.allow_missing_fields]
            /\ UNCHANGED raised
    /\ UNCHANGED <<args, pending, batch, added, attempts, frame, calls, client_raised,
                   logs, queries, e>>

\* What the probe query("") may answer: nothing, or an error with a message.
EmptyQueryMessage == "No SQL statements were provided in the query string"
WrappedEmptyQueryMessage ==
    "rpc error: No SQL statements were provided in the query string (400)"
ProbeOutcomes ==
    {NoExc, ProbeError(EmptyQueryMessage), ProbeError(WrappedEmptyQueryMessage),
     ProbeError("unauthorized")}

\* IsEmptyQuery with every error of the probe taken for the expected one.
IsAnyError(exc) == TRUE

\* "No SQL statements were provided in the query string" in str(e)
IsEmptyQuery(exc) == exc.key \in {EmptyQueryMessage, WrappedEmptyQueryMessage}

\* setup, up to the answer of the probe query
Setup ==
    /\ pc = "constructed"
    /\ \E probe \in ProbeOutcomes :
        /\ self' = [self EXCEPT !._client = "InfluxDBClient3"]
        /\ queries' = Append(queries, "")
        /\ e' = probe
        /\ pc' = IF probe = NoExc THEN "ready" ELSE "setup_except"
    /\ UNCHANGED <<args, pending, batch, added, attempts, frame, calls, client_raised,
                   logs, raised>>

\* setup: the except clause
SetupExcept ==
    /\ pc = "setup_except"
    /\ IF ~IsEmptyQuery(e)
       THEN pc' = "setup_failed" /\ raised' = e
       ELSE pc' = "ready" /\ UNCHANGED raised
    /\ e' = NoExc
    /\ UNCHANGED <<args, self, pending, batch, added, attempts, frame, calls,
                   client_raised, logs, queries>>

\* isinstance(value, Mapping) with the test left out.
AnyValue(call) == TRUE

\* isinstance(value, Mapping)
IsMapping(call) == call.mapping

\* add
Add ==
    /\ pc = "ready"
    /\ pending # <<>>
    /\ LET call == Head(pending) IN
        /\ pending' = Tail(pending)
        /\ IF ~IsMapping(call)
           THEN /\ pc' = "add_failed"
                /\ raised' = TypeError
                /\ UNCHANGED <<batch, added>>
           ELSE /\ batch' = [topic |-> call.topic, partition |-> call.partition,
                             items |-> Append(batch.items,
                                 [value |-> call.value, mapping |-> call.mapping,
                                  key |-> call.key, timestamp |-> call.timestamp,
                                  headers |-> call.headers, offset |-> call.offset])]
                /\ added' = Append(added, call.value)
                /\ UNCHANGED <<pc, raised>>
    /\ UNCHANGED <<args, self, attempts, frame, calls, client_raised, logs, queries, e>>

\* A failed write whose batch the pipeline keeps and writes again.
DestinationFailure(exc) ==
    exc.type \in {"SinkBackpressureError", "InfluxDBError", "TimeoutError"}

\* NewRecords with the list created once, before the loop over chunks.
KeepRecords(previous) == previous

\* records = [] at the top of the loop over chunks; the argument is the list
\* the previous chunk left.
NewRecords(previous) == <<>>

\* AfterWrite with a failed call issued again.
AfterWriteAgain(outcome, chunk, n_chunks) ==
    IF outcome # NoExc THEN "send"
    ELSE IF chunk = n_chunks THEN "returned"
    ELSE "transform"

\* Where write goes after self._client.write: on to the next chunk, out by
\* return after the last one, out by raise when the call raised.
AfterWrite(outcome, chunk, n_chunks) ==
    IF outcome # NoExc THEN "raised"
    ELSE IF chunk = n_chunks THEN "returned"
    ELSE "transform"

\* write, up to the first item of the first chunk
WriteBegin ==
    /\ \/ pc = "ready" /\ pending = <<>>
       \/ pc = "raised" /\ DestinationFailure(raised)
    /\ batch.items # <<>>
    /\ attempts < MaxAttempts
    /\ attempts' = attempts + 1
    /\ chunks' = iter_chunks(Len(batch.items), self._batch_size)
    /\ k' = 1
    /\ i' = 1
    /\ records' = NewRecords(records)
    /\ min_timestamp' = maxsize
    /\ max_timestamp' = -1
    /\ pc' = "transform"
    /\ raised' = NoExc
    /\ client_raised' = NoExc
    /\ UNCHANGED <<args, self, pending, batch, added, calls, logs, queries, e>>

min(x, y) == IF x <= y THEN x ELSE y
max(x, y) == IF x >= y THEN x ELSE y

\* LastItem with the loop over the chunk's items left after its first pass.
FirstItem(at, chunk) == TRUE

\* The loop over the chunk's items ends with this pass.
LastItem(at, chunk) == at = Len(chunk)

\* write: one pass of the loop over the chunk's items
Transform ==
    /\ pc = "transform"
    /\ LET at == chunks[k][i]
           done == TransformItem(self, batch.topic, batch.partition, batch.items[at])
       IN /\ batch' = [batch EXCEPT !.items[at].value = done.value]
          /\ IF done.ok
             THEN /\ records' = Append(records, done.point)
                  /\ min_timestamp' = min(done.point.time, min_timestamp)
                  /\ max_timestamp' = max(done.point.time, max_timestamp)
                  /\ i' = i + 1
                  /\ pc' = IF LastItem(i, chunks[k]) THEN "send" ELSE "transform"
                  /\ UNCHANGED raised
             ELSE /\ pc' = "raised"
                  /\ raised' = done.exc
                  /\ UNCHANGED <<records, min_timestamp, max_timestamp, i>>
    /\ UNCHANGED <<args, self, pending, added, attempts, chunks, k, calls,
                   client_raised, logs, queries, e>>

\* write: self._client.write(record=records, ...) and what follows it
ClientWrite ==
    /\ pc = "send"
    /\ \E outcome \in WriteErrors \cup {NoExc} :
        /\ calls' = Append(calls, [record |-> records,
                                   write_precision |-> self._write_precision,
                                   attempt |-> attempts, chunk |-> k,
                                   returned |-> outcome = NoExc])
        /\ client_raised' = outcome
        /\ pc' = AfterWrite(outcome, k, Len(chunks))
        /\ IF outcome = NoExc
           THEN /\ logs' = Append(logs, [total_records |-> Len(records),
                                         min_timestamp |-> min_timestamp,
                                         max_timestamp |-> max_timestamp,
                                         attempt |-> attempts, chunk |-> k])
                /\ UNCHANGED raised
                /\ IF k = Len(chunks)
                   THEN UNCHANGED <<k, i, records, min_timestamp, max_timestamp>>
                   ELSE /\ k' = k + 1
                        /\ i' = 1
                        /\ records' = NewRecords(records)
                        /\ min_timestamp' = maxsize
                        /\ max_timestamp' = -1
           ELSE /\ raised' = Translate(outcome, batch.topic, batch.partition)
                /\ UNCHANGED <<logs, k, i, records, min_timestamp, max_timestamp>>
    /\ UNCHANGED <<args, self, pending, batch, added, attempts, chunks, queries, e>>

Next ==
    \/ Construct
    \/ Setup
    \/ SetupExcept
    \/ Add
    \/ WriteBegin
    \/ Transform
    \/ ClientWrite

\* Spec: every mapping configuration, a checkpoint of up to MaxRecords records.
MappingConfigs ==
    Configs(FieldsSetters, TagsSetters, MeasurementSetters, {NoneKey, "a"},
            {"ms"}, BOOLEAN, {1})
MappingFeeds ==
    Feeds(AddCalls(ValueMaps, RecordKeys, Timestamps, "t", 2), MaxRecords)

Init == InitWith(MappingConfigs, MappingFeeds)
Spec == Init /\ [][Next]_vars

\* SpecBatch: the chunking configurations, a checkpoint of up to MaxBatch records.
BatchConfigs ==
    Configs({StaticKeys({}), StaticKeys({"b"})},
            {StaticKeys({}), StaticKeys({"a"}), KeysFn("a_if_present")},
            {StaticName("m")}, {NoneKey}, {"ms"}, {FALSE}, ChunkSizes)
BatchFeeds ==
    Feeds(AddCalls([Keys -> {1}] \cup [{"b"} -> {2}], RecordKeys, {-2, 0}, "t", 2),
          MaxBatch)

InitBatch == InitWith(BatchConfigs, BatchFeeds)
SpecBatch == InitBatch /\ [][Next]_vars

\* SpecLife: construction, setup and add with every time precision, a wrong
\* one, static and function setters, and values that are no mappings.
LifeConfigs ==
    Configs({StaticKeys({}), StaticKeys({"a"}), KeysFn("keys_of")},
            {StaticKeys({}), StaticKeys({"a"}), KeysFn("a_if_present")},
            MeasurementSetters, {NoneKey}, TimePrecision \cup {"min"}, {FALSE}, {2})
LifeFeeds ==
    Feeds(AddCalls({[f \in {"a"} |-> 1]}, RecordKeys, Timestamps, "t", 2)
            \cup OtherAddCalls(RecordKeys, Timestamps, "t", 2),
          MaxBatch)

InitLife == InitWith(LifeConfigs, LifeFeeds)
SpecLife == InitLife /\ [][Next]_vars

\* ----------------------------------------------------------------- claims

\* The last self._client.write call raised.
WriteFailed == pc = "raised" /\ client_raised # NoExc

\* A destination error with status 429 that carries a retry-after duration.
AsksToRetryLater(exc) ==
    /\ exc.type = "InfluxDBError"
    /\ exc.has_response
    /\ exc.status = 429
    /\ exc.retry_after # NoRetryAfter

\* C1: when the destination write of a chunk fails with a destination error
\* of status 429 carrying a retry-after duration, write raises a
\* SinkBackpressureError with the batch's topic and partition and the
\* retry-after value in whole seconds ("30" gives 30), and nothing else.
C1_BackpressureRaised ==
    (WriteFailed /\ AsksToRetryLater(client_raised)) =>
        /\ raised.type = "SinkBackpressureError"
        /\ raised.topic = batch.topic
        /\ raised.partition = batch.partition
        /\ raised.seconds = int(client_raised.retry_after)
        /\ (client_raised.retry_after = <<3, 0>> => raised.seconds = 30)
        /\ raised = [NoExc EXCEPT !.type = "SinkBackpressureError",
                                  !.topic = batch.topic,
                                  !.partition = batch.partition,
                                  !.seconds = raised.seconds]

C1_Witness ==
    /\ WriteFailed
    /\ client_raised = InfluxDBError(TRUE, 429, <<3, 0>>)
    /\ raised = SinkBackpressureError(30, "t", 2)

\* C2: a destination write failure that is not a 429 together with a
\* retry-after duration (another status, a 429 without retry-after, no
\* response, an error of another type) leaves write as the very error the
\* client raised, and a SinkBackpressureError is raised for no such failure.
C2_OtherFailuresPropagate ==
    /\ (WriteFailed /\ ~AsksToRetryLater(client_raised)) => raised = client_raised
    /\ raised.type = "SinkBackpressureError" =>
        (WriteFailed /\ AsksToRetryLater(client_raised))

C2_Witness ==
    /\ WriteFailed
    /\ client_raised = InfluxDBError(TRUE, 429, NoRetryAfter)
    /\ raised = client_raised
    /\ Len(calls) = 1

\* The self._client.write calls of the a-th write(batch) call, in call order.
CallsOf(a) == SelectSeq(calls, LAMBDA c : c.attempt = a)

\* The points of a sequence of calls, concatenated in call order.
RECURSIVE PointsOf(_)
PointsOf(cs) == IF cs = <<>> THEN <<>> ELSE Head(cs).record \o PointsOf(Tail(cs))

\* ceil(n / c)
CeilDiv(n, c) == CHOOSE m \in 0..n : m * c >= n /\ (m = 0 \/ (m - 1) * c < n)

\* The point was built from the item: its time is the item's timestamp, its
\* fields are entries the item's value still holds, its tags are keys popped
\* from the item's value (no time_key, no metadata tags).
BuiltFrom(point, item) ==
    /\ point.time = item.timestamp
    /\ \A f \in DOMAIN point.fields :
           f \in DOMAIN item.value /\ item.value[f] = point.fields[f]
    /\ \A t \in DOMAIN point.tags : t \notin DOMAIN item.value

\* C3: a write(batch) all of whose destination writes succeed issues exactly
\* ceil(n/c) calls for a batch of n records and batch_size c; every call but
\* the last carries c points, the last n - c*(ceil(n/c)-1); and the points of
\* the calls, in call order, are those of the batch's records, in order.
C3_ChunkedCalls ==
    pc = "returned" =>
        LET n == Len(batch.items)
            c == self._batch_size
            m == CeilDiv(n, c)
            mine == CallsOf(attempts)
            points == PointsOf(mine)
        IN  /\ Len(mine) = m
            /\ \A j \in 1..(m - 1) : Len(mine[j].record) = c
            /\ Len(mine[m].record) = n - c * (m - 1)
            /\ Len(points) = n
            /\ \A j \in 1..n : BuiltFrom(points[j], batch.items[j])

C3_Witness ==
    /\ pc = "returned"
    /\ Len(batch.items) = 3
    /\ self._batch_size = 2
    /\ batch.items[1] # batch.items[2]
    /\ batch.items[2] # batch.items[3]
    /\ Len(CallsOf(attempts)) = 2
    /\ Len(CallsOf(attempts)[1].record) = 2
    /\ Len(CallsOf(attempts)[2].record) = 1

\* C4: within one write(batch) call the chunks go to the destination one
\* after another in batch order, each at most once; chunk k+1 goes only after
\* the call for chunk k returned; and once a chunk's transformation or write
\* has failed the call issues no further destination write.
C4_Sequential ==
    /\ \A a \in 1..attempts :
        LET mine == CallsOf(a) IN
        \A j \in 1..Len(mine) :
            /\ mine[j].chunk = j
            /\ j < Len(mine) => mine[j].returned
    /\ pc \in {"transform", "send"} => Len(CallsOf(attempts)) = k - 1
    /\ (pc = "raised" /\ client_raised = NoExc) => Len(CallsOf(attempts)) = k - 1
    /\ (pc = "raised" /\ client_raised # NoExc) =>
        /\ Len(CallsOf(attempts)) = k
        /\ ~CallsOf(attempts)[k].returned
    /\ \A x, y \in 1..Len(calls) : x < y => calls[x].attempt <= calls[y].attempt

C4_Witness ==
    /\ pc = "raised"
    /\ client_raised # NoExc
    /\ Len(chunks) = 3
    /\ k = 2
    /\ Len(CallsOf(attempts)) = 2
    /\ CallsOf(attempts)[1].returned

\* The chunk of the batch's j-th record and the record's place in it.
ChunkOf(j) == CHOOSE c \in DOMAIN chunks : \E q \in DOMAIN chunks[c] : chunks[c][q] = j
PlaceOf(j) == CHOOSE q \in DOMAIN chunks[ChunkOf(j)] : chunks[ChunkOf(j)][q] = j

\* The a-th write(batch) call handed the destination a point for record j.
BuiltBy(a, j) == ChunkOf(j) <= Len(CallsOf(a))
PointBy(a, j) == CallsOf(a)[ChunkOf(j)].record[PlaceOf(j)]

\* C5: when write(batch) failed at the destination and the pipeline calls
\* write again with the same batch, the retry starts from the first record,
\* fails for no record the first attempt had built a point for, and, when the
\* destination accepts every write, delivers for every record the point the
\* first attempt built for it.
C5_RetryRedelivers ==
    attempts >= 2 =>
        /\ (pc = "raised" /\ client_raised = NoExc) => ~BuiltBy(1, chunks[k][i])
        /\ pc = "returned" =>
            \A j \in 1..Len(batch.items) :
                BuiltBy(1, j) => PointBy(attempts, j) = PointBy(1, j)

\* The item the loop over the chunk's items is at, its value as the loop
\* finds it, and the key sets the sink's functions resolve for that value.
Current == batch.items[chunks[k][i]]
ResolvedTags == CallKeys(self._tags_keys, Current.value)
ResolvedFields == CallKeys(self._fields_keys, Current.value)

\* The step transforms the current item into a point, or fails on it.
Emits == pc = "transform" /\ Len(records') = Len(records) + 1
Emitted == records'[Len(records')]
Fails == pc = "transform" /\ pc' = "raised"

\* C6: no key of a record's resolved tag-key set is a key of the field set
\* of the point emitted for the record, whether the field keys are empty,
\* static or chosen by a function, under both missing-field policies.
C6_TagKeysNotFields ==
    [][Emits => (DOMAIN Emitted.fields) \cap ResolvedTags = {}]_vars

C6_Witness ==
    /\ Len(records) = 1
    /\ args.fields_keys = KeysFn("keys_of")
    /\ args.tags_keys = StaticKeys({"a"})
    /\ DOMAIN added[1] = {"a", "b"}
    /\ DOMAIN records[1].tags = {"a"}
    /\ DOMAIN records[1].fields = {"b"}

\* The record's non-empty resolved field-key set holds a key that the
\* record value lacks and that is no tag key.
MissesField ==
    /\ pc = "transform"
    /\ \E f \in ResolvedFields : f \notin DOMAIN Current.value /\ f \notin ResolvedTags

\* No tag key and no time key is absent from the record.
TagsAndTimePresent ==
    /\ ResolvedTags \subseteq DOMAIN Current.value
    /\ self._time_key # NoneKey =>
           self._time_key \in (DOMAIN Current.value) \ ResolvedTags

\* C7: for a record whose field-key set holds a key absent from the value
\* and no tag key: with allow_missing_fields=False the transform fails with a
\* key error and the chunk is not written; with allow_missing_fields=True the
\* key is omitted, the field keys the value holds after tag extraction are
\* emitted with their values, and the record is processed.
C7_MissingFieldPolicy ==
    [][MissesField =>
        IF ~self._allow_missing_fields
        THEN /\ Fails
             /\ raised'.type = "KeyError"
             /\ calls' = calls
             /\ Len(CallsOf(attempts)) = k - 1
        ELSE /\ Emits <=> TagsAndTimePresent
             /\ Emits =>
                 Emitted.fields =
                     [f \in (ResolvedFields \cap DOMAIN Current.value) \ ResolvedTags
                        |-> Current.value[f]]
    ]_vars

C7_Witness ==
    /\ Len(records) = 1
    /\ self._allow_missing_fields
    /\ args.fields_keys = StaticKeys({"a", "b"})
    /\ added[1] = [f \in {"a"} |-> 2]
    /\ records[1].fields = [f \in {"a"} |-> 2]

\* C8: when the resolved field-key set of a record is empty (static () or a
\* function returning nothing) the emitted field set is the record's value
\* with exactly the resolved tag keys removed.
C8_EmptyFieldKeys ==
    [][(Emits /\ ResolvedFields = {}) =>
        Emitted.fields =
            [f \in (DOMAIN Current.value) \ ResolvedTags |-> Current.value[f]]
    ]_vars

C8_Witness ==
    /\ Len(records) = 1
    /\ args.fields_keys = KeysFn("no_keys")
    /\ args.tags_keys = StaticKeys({"a"})
    /\ added[1] = [f \in {"a", "b"} |-> IF f = "a" THEN 1 ELSE 2]
    /\ records[1].fields = [f \in {"b"} |-> 2]

\* Both setters are static and share a key.
StaticOverlap ==
    /\ args.fields_keys.kind = "static"
    /\ args.tags_keys.kind = "static"
    /\ \E key \in Keys : key \in args.fields_keys.keys /\ key \in args.tags_keys.keys

\* C9: construction with static fields_keys and tags_keys succeeds when the
\* two are disjoint and fails with a value error when they share a key; the
\* check runs at construction, before any record is added or written, and
\* not when either setter is a function.
C9_OverlapRejectedAtConstruction ==
    /\ (pc # "new" /\ args.time_precision \in TimePrecision) =>
           (pc = "init_failed" <=> StaticOverlap)
    /\ pc = "init_failed" =>
        /\ raised.type = "ValueError"
        /\ self = NoSink
        /\ batch.items = <<>>
        /\ attempts = 0
        /\ calls = <<>>
    /\ raised.type = "ValueError" => pc = "init_failed"

C9_Witness ==
    /\ pc = "init_failed"
    /\ args.fields_keys = StaticKeys({"a", "b"})
    /\ args.tags_keys = StaticKeys({"a"})
    /\ raised = ValueError("fields_keys and tags_keys")

MetadataNames == {"__key", "__topic", "__partition"}

\* C10: with include_metadata_tags=True every emitted point carries __key,
\* __topic and __partition holding the record's key and the batch's topic and
\* partition, together with every user tag taken from the record; with
\* include_metadata_tags=False its tags are exactly the resolved tag keys.
C10_MetadataTags ==
    [][Emits =>
        LET tags == Emitted.tags IN
        /\ \A t \in ResolvedTags : t \in DOMAIN tags /\ tags[t] = Current.value[t]
        /\ IF self._include_metadata_tags
           THEN /\ DOMAIN tags = ResolvedTags \cup MetadataNames
                /\ tags["__key"] = Current.key
                /\ tags["__topic"] = batch.topic
                /\ tags["__partition"] = batch.partition
           ELSE DOMAIN tags = ResolvedTags
    ]_vars

C10_Witness ==
    /\ Len(records) = 1
    /\ self._include_metadata_tags
    /\ DOMAIN records[1].tags = {"a"} \cup MetadataNames
    /\ records[1].tags["a"] = added[1]["a"]
    /\ records[1].tags["__key"] = "k1"
    /\ records[1].tags["__topic"] = "t"
    /\ records[1].tags["__partition"] = 2

\* An add() call is taken from the pending calls.
Adds == pc = "ready" /\ Len(pending') < Len(pending)

\* The item the accumulation makes of an add() call's arguments.
ItemOf(call) ==
    [value |-> call.value, mapping |-> call.mapping, key |-> call.key,
     timestamp |-> call.timestamp, headers |-> call.headers, offset |-> call.offset]

\* C11: add() with a value that is no mapping fails at once with a TypeError
\* and hands nothing to the batch, so no batch passed to write holds such a
\* value; add() with a mapping hands value, key, timestamp, headers, topic,
\* partition and offset on unchanged.
C11_AddRejectsOtherValues ==
    [][/\ Adds =>
            LET call == Head(pending) IN
            IF call.mapping
            THEN /\ batch'.items = Append(batch.items, ItemOf(call))
                 /\ batch'.topic = call.topic
                 /\ batch'.partition = call.partition
                 /\ pc' = "ready"
                 /\ raised' = raised
            ELSE /\ pc' = "add_failed"
                 /\ raised' = TypeError
                 /\ batch' = batch
       /\ attempts' > attempts =>
            \A j \in 1..Len(batch.items) : batch.items[j].mapping
    ]_vars

C11_Witness ==
    /\ pc = "add_failed"
    /\ raised = TypeError
    /\ Len(batch.items) = 1
    /\ batch.items[1].mapping
    /\ Len(pending) = 1
    /\ calls = <<>>

\* The write precision code the client is given for a time precision.
WritePrecisionOf(precision) ==
    CASE precision = "ms" -> "WritePrecision.MS"
      [] precision = "ns" -> "WritePrecision.NS"
      [] precision = "us" -> "WritePrecision.US"
      [] precision = "s" -> "WritePrecision.S"

\* C12: a time_precision outside ms, ns, us, s is refused at construction
\* with a ValueError; a constructed sink holds the write precision code of
\* its time_precision, unchanged ever after, and every destination write is
\* given that code.
C12_WritePrecision ==
    /\ (pc # "new" /\ args.time_precision \notin {"ms", "ns", "us", "s"}) =>
        /\ pc = "init_failed"
        /\ raised = ValueError("time_precision")
        /\ self = NoSink
    /\ pc \notin {"new", "init_failed"} =>
        /\ args.time_precision \in {"ms", "ns", "us", "s"}
        /\ self._write_precision = WritePrecisionOf(args.time_precision)
    /\ \A j \in 1..Len(calls) :
        calls[j].write_precision = WritePrecisionOf(args.time_precision)

C12_Witness ==
    /\ args.time_precision = "s"
    /\ Len(calls) = 2
    /\ calls[1].write_precision = "WritePrecision.S"
    /\ calls[2].write_precision = "WritePrecision.S"
    /\ calls[2].attempt = 2

\* The probe's error says that the query held no SQL statement.
SaysNoStatements(exc) ==
    exc.key \in {"No SQL statements were provided in the query string",
                 "rpc error: No SQL statements were provided in the query string (400)"}

\* C13: construction creates no client and calls the destination not at all;
\* setup() creates the client and issues one probe query, the empty string;
\* a probe error that does not say 'No SQL statements were provided in the
\* query string' makes setup fail with that very error, one that says so is
\* swallowed and setup succeeds.
C13_SetupProbes ==
    [][/\ pc' \in {"new", "constructed", "init_failed"} =>
            /\ self'._client = "None"
            /\ queries' = <<>>
            /\ calls' = <<>>
       /\ pc = "constructed" =>
            /\ self'._client = "InfluxDBClient3"
            /\ queries' = <<"">>
            /\ calls' = <<>>
            /\ pc' = IF e' = NoExc THEN "ready" ELSE "setup_except"
       /\ pc = "setup_except" =>
            /\ e # NoExc
            /\ IF SaysNoStatements(e)
               THEN pc' = "ready" /\ raised' = NoExc
               ELSE pc' = "setup_failed" /\ raised' = e
       /\ pc' = "setup_failed" => pc = "setup_except"
       /\ queries' # queries => pc = "constructed"
    ]_vars

C13_Witness ==
    /\ pc = "setup_failed"
    /\ raised = ProbeError("unauthorized")
    /\ self._client = "InfluxDBClient3"
    /\ queries = <<"">>

\* C14: resolving a static measurement, fields or tags setter gives a
\* function that returns that constant for every record value, and resolving
\* it again gives a function that agrees with the first on every value;
\* resolving a setter that is a function gives that function unchanged.
C14_SetterResolution ==
    pc \notin {"new", "init_failed"} =>
        /\ IF args.measurement.kind = "static"
           THEN \A v \in ValueMaps :
                    /\ CallName(self._measurement, v) = args.measurement.name
                    /\ CallName(_measurement_callable(args.measurement), v)
                           = CallName(self._measurement, v)
           ELSE self._measurement = args.measurement
        /\ IF args.fields_keys.kind = "static"
           THEN \A v \in ValueMaps :
                    /\ CallKeys(self._fields_keys, v) = args.fields_keys.keys
                    /\ CallKeys(_fields_callable(args.fields_keys), v)
                           = CallKeys(self._fields_keys, v)
           ELSE self._fields_keys = args.fields_keys
        /\ IF args.tags_keys.kind = "static"
           THEN \A v \in ValueMaps :
                    /\ CallKeys(self._tags_keys, v) = args.tags_keys.keys
                    /\ CallKeys(_tags_callable(args.tags_keys), v)
                           = CallKeys(self._tags_keys, v)
           ELSE self._tags_keys = args.tags_keys

C14_Witness ==
    /\ pc = "ready"
    /\ args.measurement = StaticName("m")
    /\ CallName(self._measurement, EmptyMap) = "m"
    /\ args.fields_keys = StaticKeys({"a"})
    /\ CallKeys(self._fields_keys, EmptyMap) = {"a"}
    /\ args.tags_keys = KeysFn("a_if_present")
    /\ self._tags_keys = KeysFn("a_if_present")

\* C15: write(batch) leaves every buffered record's value as it was added;
\* tag extraction removes keys from a working copy only.
C15_BufferedRecordsKept ==
    \A j \in 1..Len(batch.items) : batch.items[j].value = added[j]

\* C16: for every record a write call processes, in a first attempt or a
\* retry, the measurement, tag and field functions are evaluated on the value
\* the record had when it was added, holding every key it had then, before any
\* tag key is removed.
C16_EvaluatedOnOriginal ==
    [][(Emits \/ Fails) =>
        LET original == added[chunks[k][i]] IN
        /\ Current.value = original
        /\ Emits =>
            /\ Emitted.measurement = CallName(self._measurement, original)
            /\ (DOMAIN Emitted.tags) \ MetadataNames
                   = CallKeys(self._tags_keys, original)
    ]_vars

\* C17: a record whose value lacks a resolved tag key makes write raise a
\* KeyError for that key under either missing-field policy; the destination
\* is not called for the record's chunk nor for a later one, and every
\* chunk before it has been written.
C17_AbsentTagKey ==
    [][/\ (pc = "transform" /\ ~(ResolvedTags \subseteq DOMAIN Current.value)) =>
            LET mine == CallsOf(attempts) IN
            /\ pc' = "raised"
            /\ raised'.type = "KeyError"
            /\ raised'.key \in ResolvedTags \ DOMAIN Current.value
            /\ calls' = calls
            /\ logs' = logs
            /\ Len(mine) = k - 1
            /\ \A j \in 1..(k - 1) : mine[j].chunk = j /\ mine[j].returned
       /\ ~(pc = "raised" /\ raised.type = "KeyError")
    ]_vars

C17_Witness ==
    /\ pc = "raised"
    /\ raised = KeyError("a")
    /\ self._allow_missing_fields
    /\ attempts = 1
    /\ k = 2
    /\ "a" \notin DOMAIN added[chunks[k][i]]
    /\ Len(calls) = 1
    /\ calls[1].returned

\* C18: without a time_key a point's time is its record's timestamp; with a
\* time_key it is the value's entry under that key, read after the tag keys
\* were taken out, so a time_key the value lacks, or one that is also a
\* resolved tag key, raises a KeyError and never falls back on the timestamp.
C18_PointTime ==
    [][pc = "transform" =>
        IF self._time_key = NoneKey
        THEN Emits => Emitted.time = Current.timestamp
        ELSE /\ Emits =>
                 /\ self._time_key \in (DOMAIN Current.value) \ ResolvedTags
                 /\ Emitted.time = Current.value[self._time_key]
             /\ (self._time_key \notin DOMAIN Current.value
                    \/ self._time_key \in ResolvedTags) =>
                 /\ pc' = "raised"
                 /\ raised'.type = "KeyError"
                 /\ records' = records
    ]_vars

C18_Witness ==
    /\ pc = "raised"
    /\ raised = KeyError("a")
    /\ attempts = 1
    /\ self._time_key = "a"
    /\ args.tags_keys = StaticKeys({"a"})
    /\ args.fields_keys = StaticKeys({})
    /\ "a" \in DOMAIN added[1]

\* C19: every destination write, returned or failed, carries one point per
\* record of its chunk, in the chunk's order, all of them built before the
\* call: no write is of a part of a chunk, and no record of a written chunk
\* is left out or is there twice.
C19_WholeChunks ==
    /\ pc = "send" => Len(records) = Len(chunks[k])
    /\ \A c \in 1..Len(calls) :
        LET chunk == chunks[calls[c].chunk]
            record == calls[c].record
        IN  /\ Len(record) = Len(chunk)
            /\ \A q \in 1..Len(chunk) : BuiltFrom(record[q], batch.items[chunk[q]])

C19_Witness ==
    /\ Len(batch.items) = 3
    /\ batch.items[1].timestamp # batch.items[2].timestamp
    /\ self._batch_size = 2
    /\ Len(calls) = 2
    /\ Len(calls[1].record) = 2
    /\ calls[1].record[1].time = batch.items[1].timestamp
    /\ calls[1].record[2].time = batch.items[2].timestamp
    /\ Len(calls[2].record) = 1
    /\ ~calls[2].returned

\* The times of the points of the destination call a diagnostic is about.
TimesOf(log) ==
    LET call == CHOOSE c \in {calls[j] : j \in 1..Len(calls)} :
                    c.attempt = log.attempt /\ c.chunk = log.chunk
    IN  {call.record[q].time : q \in 1..Len(call.record)}

\* C20: the diagnostic of every chunk written reports as min_timestamp and
\* max_timestamp the smallest and the largest time among the points of that
\* chunk alone, each the time of one of them, whatever integers the times
\* are, zero and negative ones too; a chunk whose write failed has none.
C20_DiagnosticMinMax ==
    /\ Len(logs) = Len(SelectSeq(calls, LAMBDA c : c.returned))
    /\ \A l \in 1..Len(logs) :
        LET times == TimesOf(logs[l]) IN
        /\ \E c \in 1..Len(calls) :
               /\ calls[c].attempt = logs[l].attempt
               /\ calls[c].chunk = logs[l].chunk
               /\ calls[c].returned
        /\ logs[l].min_timestamp \in times
        /\ logs[l].max_timestamp \in times
        /\ \A t \in times : logs[l].min_timestamp <= t /\ t <= logs[l].max_timestamp

====
